---- MODULE Spec2Model ----
(***************************************************************************)
(* Leaf AI backend (backend/main.py): the POST /analyze handler.           *)
(*                                                                         *)
(* Texts that the handler processes (the prompt, the assistant's answer)   *)
(* are sequences of one-character strings; JSON values are tagged records. *)
(***************************************************************************)
EXTENDS Integers, Sequences, FiniteSets, TLC

-----------------------------------------------------------------------------
(* Bounds of the model.                                                    *)

\* number of analyze requests in flight
NumRequests == 2
\* number of worker processes of the hosting runtime (one event loop each)
NumWorkers == 2
\* largest value of the microsecond clock
MaxClock == 1
\* number of fragments an upstream answer text is put together from
MaxPieces == 3

-----------------------------------------------------------------------------
(* Characters.                                                             *)

UpperCase ==
    << "A","B","C","D","E","F","G","H","I","J","K","L","M",
       "N","O","P","Q","R","S","T","U","V","W","X","Y","Z" >>

LowerCase ==
    << "a","b","c","d","e","f","g","h","i","j","k","l","m",
       "n","o","p","q","r","s","t","u","v","w","x","y","z" >>

Digits == { "0","1","2","3","4","5","6","7","8","9" }

\* the (?i) flag: characters are compared after case folding
Lower(c) ==
    IF \E i \in 1..26 : UpperCase[i] = c
      THEN LowerCase[CHOOSE i \in 1..26 : UpperCase[i] = c]
      ELSE c

\* \s of the regular expressions, and the characters str.strip() removes
IsSpace(c) == c \in { " ", "\t", "\n", "\r", "\f" }

\* \w, for the \b of the third meta pattern
IsWord(c) ==
    \/ \E i \in 1..26 : c = UpperCase[i] \/ c = LowerCase[i]
    \/ c \in Digits
    \/ c = "_"

-----------------------------------------------------------------------------
(* clean_model_text and the regular expressions it applies.                *)

\* the literal lit (lower case) matches s at position p, ignoring case
MatchAt(s, p, lit) ==
    /\ p >= 1
    /\ p + Len(lit) - 1 <= Len(s)
    /\ \A i \in 1..Len(lit) : Lower(s[p + i - 1]) = lit[i]

RECURSIVE FirstAt(_, _, _)
\* the first position >= p where lit matches, 0 when there is none
FirstAt(s, p, lit) ==
    IF p + Len(lit) - 1 > Len(s) THEN 0
    ELSE IF MatchAt(s, p, lit) THEN p
    ELSE FirstAt(s, p + 1, lit)

RECURSIVE SkipSpaces(_, _)
\* greedy \s* from position p: the position of the first non-space
SkipSpaces(s, p) ==
    IF p <= Len(s) /\ IsSpace(s[p]) THEN SkipSpaces(s, p + 1) ELSE p

ThinkOpen == << "<","t","h","i","n","k",">" >>

ThinkClose == << "<","/","t","h","i","n","k",">" >>

RECURSIVE StripThinkFrom(_, _)
\* re.sub(r"(?is)<think>.*?</think>", "", text), scanning from position pos:
\* the leftmost <think>, up to the first </think> after it, is dropped and
\* the scan goes on after the match
StripThinkFrom(s, pos) ==
    LET i == FirstAt(s, pos, ThinkOpen)
        j == IF i = 0 THEN 0 ELSE FirstAt(s, i + Len(ThinkOpen), ThinkClose)
    IN  IF i = 0 \/ j = 0
          THEN SubSeq(s, pos, Len(s))
          ELSE SubSeq(s, pos, i - 1) \o StripThinkFrom(s, j + Len(ThinkClose))

StripThink(s) == StripThinkFrom(s, 1)

\* the four meta patterns: the words separated by \s+, and what follows the
\* last word before the lazy .*? ("any": nothing, "boundary": \b,
\* "spaces": \s+)
meta_patterns ==
    << [ words |-> << <<"t","h","e">>, <<"u","s","e","r">>, <<"i","s">>,
                      <<"a","s","k","i","n","g">>, <<"m","e">> >>,
         tail  |-> "any" ],
       [ words |-> << <<"i">>, <<"c","a","n">>, <<"s","e","e">>,
                      <<"t","h","e">>, <<"i","m","a","g","e">> >>,
         tail  |-> "any" ],
       [ words |-> << <<"i">>, <<"s","h","o","u","l","d">> >>,
         tail  |-> "boundary" ],
       [ words |-> << <<"b","a","s","e","d">>, <<"o","n">>, <<"t","h","e">> >>,
         tail  |-> "spaces" ] >>

RECURSIVE MatchWords(_, _, _, _)
\* word i of words matches at p, and the later words after \s+ each: the
\* position after the last word, 0 when the match fails
MatchWords(s, p, words, i) ==
    IF ~MatchAt(s, p, words[i]) THEN 0
    ELSE LET e == p + Len(words[i])
             q == SkipSpaces(s, e)
         IN  IF i = Len(words) THEN e
             ELSE IF q = e THEN 0
             ELSE MatchWords(s, q, words, i + 1)

\* $ without re.MULTILINE: the end of the string, or before its last newline
AtEnd(s, p) == p = Len(s) + 1 \/ (p = Len(s) /\ s[p] = "\n")

RECURSIVE LazyEnd(_, _)
\* .*?(?:\n\n|$) from position p: the position after the match
LazyEnd(s, p) ==
    IF p + 1 <= Len(s) /\ s[p] = "\n" /\ s[p + 1] = "\n" THEN p + 2
    ELSE IF AtEnd(s, p) THEN p
    ELSE LazyEnd(s, p + 1)

\* the position after the match of pattern pat at the start of s, 0 when it
\* does not match
MetaMatchEnd(s, pat) ==
    LET e == MatchWords(s, SkipSpaces(s, 1), pat.words, 1)
        q == IF e = 0 THEN 0 ELSE SkipSpaces(s, e)
    IN  IF e = 0 THEN 0
        ELSE IF pat.tail = "boundary"
          THEN IF e <= Len(s) /\ IsWord(s[e]) THEN 0 ELSE LazyEnd(s, e)
        ELSE IF pat.tail = "spaces"
          THEN IF q = e THEN 0 ELSE LazyEnd(s, q)
        ELSE LazyEnd(s, e)

\* re.sub(pat, "", text) for a pattern anchored with ^: at most one match
StripMeta(s, pat) ==
    LET e == MetaMatchEnd(s, pat)
    IN  IF e = 0 THEN s ELSE SubSeq(s, e, Len(s))

RECURSIVE StripMetaAll(_, _)
\* for pat in meta_patterns: text = re.sub(pat, "", text)
StripMetaAll(s, i) ==
    IF i > Len(meta_patterns) THEN s
    ELSE StripMetaAll(StripMeta(s, meta_patterns[i]), i + 1)

RECURSIVE NewlineRun(_, _)
\* the number of consecutive newlines from position p
NewlineRun(s, p) ==
    IF p <= Len(s) /\ s[p] = "\n" THEN 1 + NewlineRun(s, p + 1) ELSE 0

RECURSIVE CollapseFrom(_, _)
\* re.sub(r"\n{3,}", "\n\n", text)
CollapseFrom(s, p) ==
    IF p > Len(s) THEN << >>
    ELSE LET k == NewlineRun(s, p)
         IN  IF k >= 3 THEN << "\n", "\n" >> \o CollapseFrom(s, p + k)
             ELSE IF k >= 1 THEN SubSeq(s, p, p + k - 1) \o CollapseFrom(s, p + k)
             ELSE << s[p] >> \o CollapseFrom(s, p + 1)

RECURSIVE LastNonSpace(_, _)
LastNonSpace(s, p) ==
    IF p >= 1 /\ IsSpace(s[p]) THEN LastNonSpace(s, p - 1) ELSE p

\* str.strip()
Strip(s) == SubSeq(s, SkipSpaces(s, 1), LastNonSpace(s, Len(s)))

\* clean_model_text for a str argument
clean_model_text(text) ==
    Strip(CollapseFrom(StripMetaAll(StripThink(text), 1), 1))

-----------------------------------------------------------------------------
(* Values of the upstream's JSON bodies, as Python sees them.              *)

JNull == [ k |-> "null" ]

JStr(s) == [ k |-> "str", s |-> s ]

JNum(n) == [ k |-> "num", n |-> n ]

JList(items) == [ k |-> "list", items |-> items ]

JDict(m) == [ k |-> "dict", m |-> m ]

\* an exception raised while evaluating an expression
Raised == [ k |-> "raise" ]

EmptyDict == JDict([ x \in {} |-> JNull ])

EmptyStr == JStr(<< >>)

\* bool(v)
Truthy(v) ==
    CASE v.k = "str"  -> v.s # << >>
      [] v.k = "num"  -> v.n # 0
      [] v.k = "list" -> v.items # << >>
      [] v.k = "dict" -> DOMAIN v.m # {}
      [] OTHER        -> FALSE

\* a or b
Or(a, b) == IF a.k = "raise" THEN a ELSE IF Truthy(a) THEN a ELSE b

\* v.get(key): None for a missing key, AttributeError when v is no dict
Get(v, key) ==
    IF v.k # "dict" THEN Raised
    ELSE IF key \in DOMAIN v.m THEN v.m[key] ELSE JNull

\* v.get(key, default)
GetOr(v, key, default) ==
    IF v.k # "dict" THEN Raised
    ELSE IF key \in DOMAIN v.m THEN v.m[key] ELSE default

\* v[0] of a truthy v: the first item of a list, the first character of a
\* str, KeyError for a dict (JSON keys are strings), TypeError otherwise
Index0(v) ==
    CASE v.k = "raise" -> Raised
      [] v.k = "list"  -> v.items[1]
      [] v.k = "str"   -> JStr(<< v.s[1] >>)
      [] OTHER         -> Raised

T_text == << "t","e","x","t" >>

T_output_text == << "o","u","t","p","u","t","_","t","e","x","t" >>

RECURSIVE FirstTextPart(_, _)
\* the loop over the parts of a list content: the text of the first part
\* whose type is "output_text" or "text"
FirstTextPart(items, i) ==
    IF i > Len(items) THEN EmptyStr
    ELSE LET part  == items[i]
             ptype == IF part.k = "dict" THEN Get(part, "type") ELSE JNull
         IN  IF ptype.k = "str" /\ ptype.s \in { T_output_text, T_text }
               THEN Or(Get(part, "text"), EmptyStr)
               ELSE FirstTextPart(items, i + 1)

\* the body of the try block that extracts the assistant's text
ExtractTry(data) ==
    LET choices == Get(data, "choices")
        choice  == Index0(Or(choices, JList(<< EmptyDict >>)))
        message == IF choice.k = "raise" THEN Raised
                   ELSE Or(Get(Or(choice, EmptyDict), "message"), EmptyDict)
        content == IF message.k = "raise" THEN Raised
                   ELSE Get(message, "content")
    IN  CASE content.k = "raise" -> Raised
          [] content.k = "list"  -> FirstTextPart(content.items, 1)
          [] content.k = "str"   -> content
          [] content.k = "dict"  -> GetOr(content, "text", EmptyStr)
          [] OTHER               -> EmptyStr

\* assistant_text after the try/except: "" when anything was raised
ExtractText(data) ==
    LET t == ExtractTry(data)
    IN  IF t.k = "raise" THEN EmptyStr ELSE t

\* clean_model_text(assistant_text): "" for anything that is no str
CleanedMessage(v) ==
    IF v.k = "str" THEN clean_model_text(v.s) ELSE << >>

-----------------------------------------------------------------------------
(* Configuration and the handler's pure steps.                             *)

MAX_BYTES == 10 * 1024 * 1024

ALLOWED_MIME == { "image/png", "image/jpeg" }

\* os.getenv gave None
KeyUnset == "<unset>"

\* `not PERPLEXITY_API_KEY` is false
KeyConfigured(key) == key # KeyUnset /\ key # ""

DefaultPrompt ==
    <<
       "A","n","a","l","y","z","e"," ","t","h","i","s"," ","l",
       "e","a","f"," ","i","m","a","g","e"," ","f","o","r"," ",
       "p","o","t","e","n","t","i","a","l"," ","d","i","s","e",
       "a","s","e","s"," ","a","n","d"," ","p","r","o","v","i",
       "d","e"," ","s","u","g","g","e","s","t","i","o","n","s",
       "." >>

\* the prompt resolved without strip(): `prompt or <the default>`
ResolvePromptUnstripped(p) == IF p # << >> THEN p ELSE DefaultPrompt

\* user_text = prompt.strip() if prompt else <the default instruction>
ResolvePrompt(p) == IF p # << >> THEN Strip(p) ELSE DefaultPrompt

\* the size check with >= for >
TooLargeOffByOne(bytes) == bytes.len >= MAX_BYTES

\* the size check left out
NeverTooLarge(bytes) == FALSE

\* len(content) > MAX_BYTES
TooLarge(bytes) == bytes.len > MAX_BYTES

\* Path(file.filename).name: the last component of the client's file name
PathName(filename) == filename[Len(filename)]

\* uploads_dir / f"{timestamp}_{original_name}"
SafeName(timestamp, filename) == << timestamp, PathName(filename) >>

\* base64.b64encode(saved_bytes).decode("utf-8")
B64(bytes) == [ b64 |-> bytes ]

\* f"data:{file.content_type};base64,{b64}"
DataUri(content_type, bytes) == [ mime |-> content_type, data |-> B64(bytes) ]

-----------------------------------------------------------------------------
(* The upstream's answers.                                                 *)

\* parsed bodies of upstream responses with a status below 400: the shapes
\* the extraction distinguishes, and top-level values that are no mapping
Payloads ==
    {
       JDict(("model" :> JStr(<< "s","o","n","a","r" >>)) @@ ("usage" :> JDict(("total_tokens" :> JNum(7)))) @@ ("choices" :> JList(<< JDict(("message" :> JDict(("role" :> JStr(<< "a","s","s","i","s","t","a","n","t" >>)) @@ ("content" :> JStr(<< "H","e","a","l","t","h","y"," ","l","e","a","f","." >>))))) >>))),
       JDict(("model" :> JStr(<< "s","o","n","a","r" >>)) @@ ("usage" :> JDict(("total_tokens" :> JNum(7)))) @@ ("choices" :> JList(<< JDict(("message" :> JDict(("role" :> JStr(<< "a","s","s","i","s","t","a","n","t" >>)) @@ ("content" :> JStr(<< "<","t","h","i","n","k",">","r","<","/","t","h","i","n","k",">","o","k" >>))))) >>))),
       JDict(("model" :> JStr(<< "s","o","n","a","r" >>)) @@ ("usage" :> JDict(("total_tokens" :> JNum(7)))) @@ ("choices" :> JList(<< JDict(("message" :> JDict(("role" :> JStr(<< "a","s","s","i","s","t","a","n","t" >>)) @@ ("content" :> JStr(<< "B","a","s","e","d"," ","o","n"," ","t","h","e"," ","i","m","a","g","e","\n","\n","I"," ","s","h","o","u","l","d" >>))))) >>))),
       JDict(("model" :> JStr(<< "s","o","n","a","r" >>)) @@ ("usage" :> JDict(("total_tokens" :> JNum(7)))) @@ ("choices" :> JList(<< JDict(("message" :> JDict(("role" :> JStr(<< "a","s","s","i","s","t","a","n","t" >>)) @@ ("content" :> JStr(<<  >>))))) >>))),
       JDict(("model" :> JStr(<< "s","o","n","a","r" >>)) @@ ("usage" :> JDict(("total_tokens" :> JNum(7)))) @@ ("choices" :> JList(<< JDict(("message" :> JDict(("role" :> JStr(<< "a","s","s","i","s","t","a","n","t" >>)) @@ ("content" :> JList(<< JDict(("type" :> JStr(<< "t","e","x","t" >>)) @@ ("text" :> JStr(<< "o","k" >>))) >>))))) >>))),
       JDict(("model" :> JStr(<< "s","o","n","a","r" >>)) @@ ("usage" :> JDict(("total_tokens" :> JNum(7)))) @@ ("choices" :> JList(<< JDict(("message" :> JDict(("role" :> JStr(<< "a","s","s","i","s","t","a","n","t" >>)) @@ ("content" :> JList(<< JDict(("type" :> JStr(<< "i","m","a","g","e" >>))), JStr(<< "x" >>), JDict(("type" :> JStr(<< "o","u","t","p","u","t","_","t","e","x","t" >>)) @@ ("text" :> JStr(<< "o","k" >>))), JDict(("type" :> JStr(<< "t","e","x","t" >>)) @@ ("text" :> JStr(<< "n","o" >>))) >>))))) >>))),
       JDict(("model" :> JStr(<< "s","o","n","a","r" >>)) @@ ("usage" :> JDict(("total_tokens" :> JNum(7)))) @@ ("choices" :> JList(<< JDict(("message" :> JDict(("role" :> JStr(<< "a","s","s","i","s","t","a","n","t" >>)) @@ ("content" :> JList(<< JDict(("type" :> JStr(<< "t","e","x","t" >>))) >>))))) >>))),
       JDict(("model" :> JStr(<< "s","o","n","a","r" >>)) @@ ("usage" :> JDict(("total_tokens" :> JNum(7)))) @@ ("choices" :> JList(<< JDict(("message" :> JDict(("role" :> JStr(<< "a","s","s","i","s","t","a","n","t" >>)) @@ ("content" :> JList(<< JDict(("type" :> JStr(<< "t","e","x","t" >>)) @@ ("text" :> JNum(5))) >>))))) >>))),
       JDict(("model" :> JStr(<< "s","o","n","a","r" >>)) @@ ("usage" :> JDict(("total_tokens" :> JNum(7)))) @@ ("choices" :> JList(<< JDict(("message" :> JDict(("role" :> JStr(<< "a","s","s","i","s","t","a","n","t" >>)) @@ ("content" :> JList(<<  >>))))) >>))),
       JDict(("model" :> JStr(<< "s","o","n","a","r" >>)) @@ ("usage" :> JDict(("total_tokens" :> JNum(7)))) @@ ("choices" :> JList(<< JDict(("message" :> JDict(("role" :> JStr(<< "a","s","s","i","s","t","a","n","t" >>)) @@ ("content" :> JDict(("text" :> JStr(<< "o","k" >>))))))) >>))),
       JDict(("model" :> JStr(<< "s","o","n","a","r" >>)) @@ ("usage" :> JDict(("total_tokens" :> JNum(7)))) @@ ("choices" :> JList(<< JDict(("message" :> JDict(("role" :> JStr(<< "a","s","s","i","s","t","a","n","t" >>)) @@ ("content" :> JDict(("text" :> JNull)))))) >>))),
       JDict(("model" :> JStr(<< "s","o","n","a","r" >>)) @@ ("usage" :> JDict(("total_tokens" :> JNum(7)))) @@ ("choices" :> JList(<< JDict(("message" :> JDict(("role" :> JStr(<< "a","s","s","i","s","t","a","n","t" >>)) @@ ("content" :> EmptyDict)))) >>))),
       JDict(("model" :> JStr(<< "s","o","n","a","r" >>)) @@ ("usage" :> JDict(("total_tokens" :> JNum(7)))) @@ ("choices" :> JList(<< JDict(("message" :> JDict(("role" :> JStr(<< "a","s","s","i","s","t","a","n","t" >>)) @@ ("content" :> JNull)))) >>))),
       JDict(("model" :> JStr(<< "s","o","n","a","r" >>)) @@ ("usage" :> JDict(("total_tokens" :> JNum(7)))) @@ ("choices" :> JList(<< JDict(("message" :> JDict(("role" :> JStr(<< "a","s","s","i","s","t","a","n","t" >>)) @@ ("content" :> JNum(5))))) >>))),
       JDict(("model" :> JStr(<< "s","o","n","a","r" >>)) @@ ("usage" :> JDict(("total_tokens" :> JNum(7)))) @@ ("choices" :> JList(<< JDict(("message" :> JDict(("role" :> JStr(<< "a","s","s","i","s","t","a","n","t" >>))))) >>))),
       JDict(("model" :> JStr(<< "s","o","n","a","r" >>)) @@ ("usage" :> JDict(("total_tokens" :> JNum(7)))) @@ ("choices" :> JList(<< JDict(("message" :> JStr(<< "h","i" >>))) >>))),
       JDict(("model" :> JStr(<< "s","o","n","a","r" >>)) @@ ("usage" :> JDict(("total_tokens" :> JNum(7)))) @@ ("choices" :> JList(<< JDict(("message" :> JNull)) >>))),
       JDict(("model" :> JStr(<< "s","o","n","a","r" >>)) @@ ("usage" :> JDict(("total_tokens" :> JNum(7)))) @@ ("choices" :> JList(<< EmptyDict >>))),
       JDict(("model" :> JStr(<< "s","o","n","a","r" >>)) @@ ("usage" :> JDict(("total_tokens" :> JNum(7)))) @@ ("choices" :> JList(<< JNull >>))),
       JDict(("model" :> JStr(<< "s","o","n","a","r" >>)) @@ ("usage" :> JDict(("total_tokens" :> JNum(7)))) @@ ("choices" :> JList(<<  >>))),
       JDict(("model" :> JStr(<< "s","o","n","a","r" >>)) @@ ("usage" :> JDict(("total_tokens" :> JNum(7)))) @@ ("choices" :> JDict(("a" :> JStr(<< "b" >>))))),
       JDict(("model" :> JStr(<< "s","o","n","a","r" >>)) @@ ("usage" :> JDict(("total_tokens" :> JNum(7)))) @@ ("choices" :> JStr(<< "a","b" >>))),
       JDict(("model" :> JStr(<< "s","o","n","a","r" >>)) @@ ("usage" :> JDict(("total_tokens" :> JNum(7)))) @@ ("choices" :> JNum(5))),
       JDict(("model" :> JStr(<< "s","o","n","a","r" >>)) @@ ("usage" :> JDict(("total_tokens" :> JNum(7))))),
       EmptyDict,
       JList(<<  >>),
       JList(<< JDict(("message" :> JDict(("content" :> JStr(<< "o","k" >>))))) >>),
       JStr(<< "o","k" >>),
       JNull,
       JNum(5) }

\* a body of an upstream error response that parses as JSON
ErrorBody ==
    JDict("error" :> JDict("message" :> JStr(<< "s","l","o","w" >>)))

\* a body that does not parse as JSON
RawText == << "B","a","d"," ","G","a","t","e","w","a","y" >>

\* what `await client.post(...)` gives: a response with its status and body
\* (json: whether resp.json() parses it), or an exception (a timeout after
\* 60 seconds, a connection error)
Response(status, json, value, text) ==
    [ kind |-> "response", status |-> status, json |-> json,
      value |-> value, text |-> text ]

PostFailed ==
    [ kind |-> "exception", status |-> 0, json |-> FALSE,
      value |-> JNull, text |-> << >> ]

Outcomes ==
    { PostFailed }
      \cup { Response(st, TRUE, ErrorBody, << >>) : st \in { 400, 429 } }
      \cup { Response(st, FALSE, JNull, RawText) : st \in { 200, 302, 400, 503 } }
      \cup { Response(200, TRUE, v, << >>) : v \in Payloads }

\* the answers used when several requests run together
FewOutcomes ==
    { PostFailed,
      Response(429, TRUE, ErrorBody, << >>),
      Response(200, TRUE,
               JDict(("choices" :> JList(<< JDict("message" :>
                        JDict("content" :> JStr(<< "o","k" >>))) >>))
                     @@ ("model" :> JStr(<< "s","o","n","a","r" >>))),
               << >>) }

-----------------------------------------------------------------------------
(* The clients' uploads.                                                   *)

\* the bytes of an upload: which image it is, and its length
Bytes(tag, len) == [ tag |-> tag, len |-> len ]

Upload(filename, content_type, body) ==
    [ filename |-> filename, content_type |-> content_type, body |-> body ]

\* file names are sequences of path components
Uploads ==
    { Upload(fn, ct, Bytes("rose", n)) :
        fn \in { << "leaf.png" >>, << "scans", "leaf.png" >> },
        ct \in { "image/png", "image/jpeg", "image/gif", "IMAGE/PNG" },
        n  \in { 1, MAX_BYTES, MAX_BYTES + 1 } }

Prompts ==
    { << >>, << " " >>, << "h","i" >>, << " ","h","i","\n" >> }

FewUploads ==
    { Upload(fn, "image/png", Bytes(tag, 1)) :
        fn  \in { << "leaf.png" >>, << "scans", "leaf.png" >>, << "oak.png" >> },
        tag \in { "rose", "vine" } }

FewPrompts == { << "h","i" >> }

-----------------------------------------------------------------------------
(* State.                                                                  *)

VARIABLES
    PERPLEXITY_API_KEY, \* the credential read from the environment at start
    clock,              \* datetime.utcnow(), in microseconds
    uploads,            \* the uploads directory: stored name -> bytes
    writers,            \* history: stored name -> the requests that wrote it
    pc,                 \* where each request is in the handler
    worker,             \* the worker process that serves the request
    file,               \* the UploadFile of the request
    prompt,             \* the prompt form field
    content,            \* content = await file.read()
    saved_path,         \* saved_path
    saved_bytes,        \* saved_bytes
    payload,            \* the user turn sent upstream: text and image URI
    resp,               \* what the upstream call gave
    reply,              \* the HTTP response of the request
    n_writes,           \* history: files the request wrote
    n_posts,            \* history: upstream calls the request made
    env,                \* the world around the server: the requests it is
                        \* sent (served), what clients post (files, prompts)
                        \* and what the upstream may answer (answers)
    text,               \* a text given to clean_model_text
    cleaned             \* the results of applying clean_model_text in turn

hvars ==
    << PERPLEXITY_API_KEY, clock, uploads, writers, pc, worker, file, prompt,
       content, saved_path, saved_bytes, payload, resp, reply, n_writes,
       n_posts, env >>

tvars == << text, cleaned >>

vars == << hvars, tvars >>

Requests == 1..NumRequests

Workers == 1..NumWorkers

NoBytes == Bytes("<unset>", 0)

NoUpload == Upload(<< >>, "", NoBytes)

NoPayload == [ text |-> << >>, image_url |-> DataUri("", NoBytes) ]

NoResp ==
    [ kind |-> "none", status |-> 0, json |-> FALSE,
      value |-> JNull, text |-> << >> ]

NoReply == [ status |-> 0, detail |-> JNull, data |-> JNull ]

\* a detail that the handler words itself
Msg(id) == [ k |-> "msg", id |-> id ]

\* raise HTTPException(status_code=status, detail=detail)
Fail(status, detail) == [ status |-> status, detail |-> detail, data |-> JNull ]

\* the steps between two awaits run without another request of the same
\* worker's event loop in between; these are the places inside such a run
SyncPcs == { "name", "write", "readback", "send" }

\* the event loop of r's worker is not inside another request's run
LoopFree(r) ==
    \A q \in Requests \ { r } : worker[q] = worker[r] => pc[q] \notin SyncPcs

HandlerInit ==
    /\ PERPLEXITY_API_KEY \in { KeyUnset, "", "pplx-key" }
    /\ clock = 0
    /\ uploads = << >>
    /\ writers = << >>
    /\ pc = [ r \in Requests |-> "idle" ]
    /\ worker = [ r \in Requests |-> 1 ]
    /\ file = [ r \in Requests |-> NoUpload ]
    /\ prompt = [ r \in Requests |-> << >> ]
    /\ content = [ r \in Requests |-> NoBytes ]
    /\ saved_path = [ r \in Requests |-> << >> ]
    /\ saved_bytes = [ r \in Requests |-> NoBytes ]
    /\ payload = [ r \in Requests |-> NoPayload ]
    /\ resp = [ r \in Requests |-> NoResp ]
    /\ reply = [ r \in Requests |-> NoReply ]
    /\ n_writes = [ r \in Requests |-> 0 ]
    /\ n_posts = [ r \in Requests |-> 0 ]

-----------------------------------------------------------------------------
(* The handler, step by step.                                              *)

\* the reply of request r is sent and the request is over
Finished(r, rep) ==
    /\ reply' = [ reply EXCEPT ![r] = rep ]
    /\ pc' = [ pc EXCEPT ![r] = "done" ]

\* a client posts an upload and a prompt, and a worker takes the request
Receive(r) ==
    /\ pc[r] = "idle"
    /\ r \in env.served
    /\ \E f \in env.files, p \in env.prompts, w \in Workers :
         /\ file' = [ file EXCEPT ![r] = f ]
         /\ prompt' = [ prompt EXCEPT ![r] = p ]
         /\ worker' = [ worker EXCEPT ![r] = w ]
    /\ pc' = [ pc EXCEPT ![r] = "validate" ]
    /\ UNCHANGED << PERPLEXITY_API_KEY, clock, uploads, writers, content,
                    saved_path, saved_bytes, payload, resp, reply, n_writes,
                    n_posts, env, tvars >>

\* the credential and MIME checks, up to `await file.read()`
Validate(r) ==
    /\ pc[r] = "validate"
    /\ LoopFree(r)
    /\ IF ~KeyConfigured(PERPLEXITY_API_KEY)
         THEN Finished(r, Fail(500, Msg("PERPLEXITY_API_KEY is not configured")))
         ELSE IF file[r].content_type \notin ALLOWED_MIME
           THEN Finished(r, Fail(400, Msg("Only PNG and JPG/JPEG files are allowed.")))
           ELSE /\ pc' = [ pc EXCEPT ![r] = "read" ]
                /\ UNCHANGED reply
    /\ UNCHANGED << PERPLEXITY_API_KEY, clock, uploads, writers, worker, file,
                    prompt, content, saved_path, saved_bytes, payload, resp,
                    n_writes, n_posts, env, tvars >>

\* content = await file.read(), and the size check
ReadUpload(r) ==
    /\ pc[r] = "read"
    /\ LoopFree(r)
    /\ content' = [ content EXCEPT ![r] = file[r].body ]
    /\ IF TooLarge(file[r].body)
         THEN Finished(r, Fail(400, Msg("File too large. Max 10 MB.")))
         ELSE /\ pc' = [ pc EXCEPT ![r] = "name" ]
              /\ UNCHANGED reply
    /\ UNCHANGED << PERPLEXITY_API_KEY, clock, uploads, writers, worker, file,
                    prompt, saved_path, saved_bytes, payload, resp, n_writes,
                    n_posts, env, tvars >>

\* uploads_dir.mkdir(...), which may raise (the exception is not caught: the
\* server answers 500), and the stored name from the clock
MakeName(r) ==
    /\ pc[r] = "name"
    /\ LoopFree(r)
    /\ \/ /\ saved_path' = [ saved_path EXCEPT ![r] =
                               SafeName(clock, file[r].filename) ]
          /\ pc' = [ pc EXCEPT ![r] = "write" ]
          /\ UNCHANGED reply
       \/ /\ Finished(r, Fail(500, Msg("Internal Server Error")))
          /\ UNCHANGED saved_path
    /\ UNCHANGED << PERPLEXITY_API_KEY, clock, uploads, writers, worker, file,
                    prompt, content, saved_bytes, payload, resp, n_writes,
                    n_posts, env, tvars >>

\* the file saved_path holds bytes, written by request r
Stored(r, bytes) ==
    /\ uploads' = (saved_path[r] :> bytes) @@ uploads
    /\ writers' =
         (saved_path[r] :>
            (IF saved_path[r] \in DOMAIN writers
               THEN writers[saved_path[r]] ELSE {}) \cup { r }) @@ writers
    /\ n_writes' = [ n_writes EXCEPT ![r] = @ + 1 ]

\* with open(saved_path, "wb") as f: f.write(content).  open may fail; the
\* write may fail after open created (or emptied) the file, which then holds
\* no bytes
WriteFile(r) ==
    /\ pc[r] = "write"
    /\ LoopFree(r)
    /\ \/ /\ Stored(r, content[r])
          /\ pc' = [ pc EXCEPT ![r] = "readback" ]
          /\ UNCHANGED reply
       \/ /\ UNCHANGED << uploads, writers, n_writes >>
          /\ Finished(r, Fail(500, Msg("Failed to save upload")))
       \/ /\ Stored(r, Bytes("", 0))
          /\ Finished(r, Fail(500, Msg("Failed to save upload")))
    /\ UNCHANGED << PERPLEXITY_API_KEY, clock, worker, file, prompt, content,
                    saved_path, saved_bytes, payload, resp, n_posts, env,
                    tvars >>

\* saved_bytes = saved_path.read_bytes(): what the file holds now
ReadBack(r) ==
    /\ pc[r] = "readback"
    /\ LoopFree(r)
    /\ \/ /\ saved_path[r] \in DOMAIN uploads
          /\ saved_bytes' = [ saved_bytes EXCEPT ![r] = uploads[saved_path[r]] ]
          /\ pc' = [ pc EXCEPT ![r] = "send" ]
          /\ UNCHANGED reply
       \/ /\ Finished(r, Fail(500, Msg("Failed to read saved file")))
          /\ UNCHANGED saved_bytes
    /\ UNCHANGED << PERPLEXITY_API_KEY, clock, uploads, writers, worker, file,
                    prompt, content, saved_path, payload, resp, n_writes,
                    n_posts, env, tvars >>

\* the data URI, the resolved prompt, and client.post(...) up to its await
Send(r) ==
    /\ pc[r] = "send"
    /\ LoopFree(r)
    /\ payload' = [ payload EXCEPT ![r] =
                      [ text      |-> ResolvePrompt(prompt[r]),
                        image_url |-> DataUri(file[r].content_type,
                                              saved_bytes[r]) ] ]
    /\ n_posts' = [ n_posts EXCEPT ![r] = @ + 1 ]
    /\ pc' = [ pc EXCEPT ![r] = "awaiting" ]
    /\ UNCHANGED << PERPLEXITY_API_KEY, clock, uploads, writers, worker, file,
                    prompt, content, saved_path, saved_bytes, resp, reply,
                    n_writes, env, tvars >>

\* `except Exception as ex:
\*      raise HTTPException(status_code=500, detail=str(ex))`
InternalError(ex) == Fail(500, Msg(ex))

\* the upstream's error caught by the generic arm and answered as 500
UpstreamErrorAs500(o) ==
    Fail(500, IF o.json THEN o.value ELSE JDict("message" :> JStr(o.text)))

\* resp.status_code >= 400: the upstream's status, with its parsed body or
\* {"message": resp.text} as detail
UpstreamError(o) ==
    Fail(o.status,
         IF o.json THEN o.value ELSE JDict("message" :> JStr(o.text)))

\* the success envelope built from the parsed body; data.get raises when the
\* body is no mapping, and the generic arm answers 500
Envelope(f, user_text, data) ==
    LET model == Get(data, "model")
        usage == Get(data, "usage")
    IN  IF model.k = "raise" \/ usage.k = "raise"
          THEN InternalError("AttributeError")
        ELSE [ status |-> 200,
               detail |-> JNull,
               data   |-> [ filename     |-> f.filename,
                            content_type |-> f.content_type,
                            prompt       |-> user_text,
                            model        |-> model,
                            message      |-> CleanedMessage(ExtractText(data)),
                            usage        |-> usage,
                            source       |-> "perplexity",
                            raw          |-> data ] ]

\* the handler from the return of client.post to its end
Responded(f, user_text, o) ==
    IF o.kind = "exception" THEN InternalError("httpx.HTTPError")
    ELSE IF o.status >= 400 THEN UpstreamError(o)
    ELSE IF ~o.json THEN InternalError("JSONDecodeError")
    ELSE Envelope(f, user_text, o.value)

\* the handler posting again after an upstream error or a failed call
FinishRetry(r) ==
    /\ pc[r] = "awaiting"
    /\ LoopFree(r)
    /\ \E o \in env.answers :
         /\ resp' = [ resp EXCEPT ![r] = o ]
         /\ IF (o.kind = "exception" \/ o.status >= 400) /\ n_posts[r] < 2
              THEN /\ pc' = [ pc EXCEPT ![r] = "send" ]
                   /\ UNCHANGED reply
              ELSE Finished(r, Responded(file[r], payload[r].text, o))
    /\ UNCHANGED << PERPLEXITY_API_KEY, clock, uploads, writers, worker, file,
                    prompt, content, saved_path, saved_bytes, payload,
                    n_writes, n_posts, env, tvars >>

\* the upstream call of request r ends with one of the upstream's answers,
\* and the handler runs to its end
Finish(r) ==
    /\ pc[r] = "awaiting"
    /\ LoopFree(r)
    /\ \E o \in env.answers :
         /\ resp' = [ resp EXCEPT ![r] = o ]
         /\ Finished(r, Responded(file[r], payload[r].text, o))
    /\ UNCHANGED << PERPLEXITY_API_KEY, clock, uploads, writers, worker, file,
                    prompt, content, saved_path, saved_bytes, payload,
                    n_writes, n_posts, env, tvars >>

\* a microsecond passes
Tick ==
    /\ clock < MaxClock
    /\ clock' = clock + 1
    /\ UNCHANGED << PERPLEXITY_API_KEY, uploads, writers, pc, worker, file,
                    prompt, content, saved_path, saved_bytes, payload, resp,
                    reply, n_writes, n_posts, env, tvars >>

-----------------------------------------------------------------------------
(* Specifications.                                                         *)

Next ==
    \/ Tick
    \/ \E r \in Requests :
         \/ Receive(r)
         \/ Validate(r)
         \/ ReadUpload(r)
         \/ MakeName(r)
         \/ WriteFile(r)
         \/ ReadBack(r)
         \/ Send(r)
         \/ Finish(r)

\* one request, with every upload, prompt and upstream answer of the model
Init ==
    /\ HandlerInit
    /\ env = [ served  |-> { 1 },
               files   |-> Uploads,
               prompts |-> Prompts,
               answers |-> Outcomes ]
    /\ text = << >>
    /\ cleaned = << >>

Spec == Init /\ [][Next]_vars

\* NumRequests requests served together by NumWorkers worker processes
InitConc ==
    /\ HandlerInit
    /\ env = [ served  |-> Requests,
               files   |-> FewUploads,
               prompts |-> FewPrompts,
               answers |-> FewOutcomes ]
    /\ text = << >>
    /\ cleaned = << >>

SpecConc == InitConc /\ [][Next]_vars

\* pieces of upstream answers: reasoning tags, the meta preambles, blank
\* lines and plain words
Fragments ==
    { << "<","T","h","i","n","k",">" >>,
      << "<","/","t","h","i","n","k",">" >>,
      << "I"," ","s","h","o","u","l","d" >>,
      << "B","a","s","e","d"," ","o","n"," ","t","h","e"," ","i","m","a","g","e" >>,
      << "T","h","e"," ","u","s","e","r"," ","i","s"," ","a","s","k","i","n","g"," ","m","e" >>,
      << "I"," ","c","a","n"," ","s","e","e"," ","t","h","e"," ","i","m","a","g","e" >>,
      << "\n","\n" >>,
      << "\n" >>,
      << " " >>,
      << "o","k" >> }

RECURSIVE Pieces(_)
\* the texts put together from n fragments
Pieces(n) ==
    IF n = 0 THEN { << >> }
    ELSE { f \o t : f \in Fragments, t \in Pieces(n - 1) }

AnswerTexts == UNION { Pieces(n) : n \in 0..MaxPieces }

InitClean ==
    /\ HandlerInit
    /\ PERPLEXITY_API_KEY = "pplx-key"
    /\ env = [ served |-> {}, files |-> {}, prompts |-> {}, answers |-> {} ]
    /\ text \in AnswerTexts
    /\ cleaned = << >>

\* clean_model_text applied to the text, and then to its own result
CleanStep ==
    /\ Len(cleaned) < 2
    /\ cleaned' = Append(cleaned,
                         clean_model_text(IF cleaned = << >> THEN text
                                          ELSE cleaned[Len(cleaned)]))
    /\ UNCHANGED << text, hvars >>

NextClean == CleanStep

SpecClean == InitClean /\ [][NextClean]_vars

-----------------------------------------------------------------------------
(* Properties.                                                             *)

\* the credential is missing: unset, or set to the empty string
KeyMissing == PERPLEXITY_API_KEY \in { KeyUnset, "" }

MimeAllowed(r) == file[r].content_type \in { "image/png", "image/jpeg" }

TenMiB == 10 * 1024 * 1024

\* d is the detail of one of the three validation failures
ValidationDetail(d) ==
    \/ d = Msg("PERPLEXITY_API_KEY is not configured")
    \/ d = Msg("Only PNG and JPG/JPEG files are allowed.")
    \/ d = Msg("File too large. Max 10 MB.")

\* d is the detail of a failed write or read-back
StorageDetail(d) ==
    \/ d = Msg("Failed to save upload")
    \/ d = Msg("Failed to read saved file")

\* the upstream call of r ended with an HTTP response
Answered(r) == pc[r] = "done" /\ resp[r].kind = "response"

\* every character of p is whitespace (the empty text included)
AllSpace(p) == \A i \in 1..Len(p) : IsSpace(p[i])

\* C1: the checks are applied in the order credential, MIME type, size, and
\* the first that fails decides the response: 500 without a credential
\* whatever the upload is; otherwise 400 for a MIME type other than
\* image/png and image/jpeg whatever the size is; otherwise 400 for more than
\* 10 MiB; an upload of 10 MiB or less is not rejected by validation.
C1_ValidationOrder ==
    \A r \in Requests :
      /\ (pc[r] \notin { "idle", "validate" } /\ KeyMissing)
           => /\ pc[r] = "done"
              /\ reply[r] = Fail(500, Msg("PERPLEXITY_API_KEY is not configured"))
      /\ (pc[r] \notin { "idle", "validate" } /\ ~KeyMissing /\ ~MimeAllowed(r))
           => /\ pc[r] = "done"
              /\ reply[r] = Fail(400, Msg("Only PNG and JPG/JPEG files are allowed."))
      /\ (pc[r] \notin { "idle", "validate", "read" } /\ ~KeyMissing
            /\ MimeAllowed(r) /\ file[r].body.len > TenMiB)
           => /\ pc[r] = "done"
              /\ reply[r] = Fail(400, Msg("File too large. Max 10 MB."))
      /\ (~KeyMissing /\ MimeAllowed(r) /\ file[r].body.len <= TenMiB)
           => ~ValidationDetail(reply[r].detail)

\* a request without a credential, with a MIME type that is not allowed and
\* an upload over the limit, was answered 500
C1_Witness ==
    \E r \in Requests :
      /\ pc[r] = "done"
      /\ KeyMissing
      /\ ~MimeAllowed(r)
      /\ file[r].body.len > TenMiB
      /\ reply[r].status = 500

\* C2 (as amended): an upstream response with status >= 400 fails the
\* request with the same status; the detail is the parsed body when the body
\* parses, and the mapping {"message": <raw text>} when it does not.
C2_UpstreamErrorSurfaced ==
    \A r \in Requests :
      (Answered(r) /\ resp[r].status >= 400)
        => /\ reply[r].status = resp[r].status
           /\ reply[r].detail =
                IF resp[r].json THEN resp[r].value
                ELSE JDict("message" :> JStr(resp[r].text))

\* C2 as stated: the detail of an unparseable error body is the raw text
C2_DetailIsRawText ==
    \A r \in Requests :
      (Answered(r) /\ resp[r].status >= 400)
        => /\ reply[r].status = resp[r].status
           /\ reply[r].detail =
                IF resp[r].json THEN resp[r].value ELSE JStr(resp[r].text)

\* an upstream 503 with a body that is no JSON was passed on as 503
C2_Witness ==
    \E r \in Requests :
      /\ Answered(r)
      /\ resp[r].status = 503
      /\ ~resp[r].json
      /\ reply[r].status = 503

\* C3: a prompt that is empty or all whitespace is resolved to the default
\* instruction, and any other prompt to a text that is not empty; the
\* resolved prompt is what is sent upstream and echoed.
C3_PromptResolution ==
    \A r \in Requests :
      n_posts[r] > 0
        => /\ AllSpace(prompt[r]) => payload[r].text = DefaultPrompt
           /\ ~AllSpace(prompt[r]) => payload[r].text # << >>
           /\ (pc[r] = "done" /\ reply[r].status = 200)
                => reply[r].data.prompt = payload[r].text

\* C4: an upstream response with a status below 400 and a body that parses,
\* whatever its shape, is answered with the 200 envelope.
C4_ExtractionNeverFails ==
    \A r \in Requests :
      (Answered(r) /\ resp[r].status < 400 /\ resp[r].json)
        => reply[r].status = 200

\* C5: clean_model_text applied to its own result changes nothing.
C5_CleanIdempotent ==
    Len(cleaned) = 2 => cleaned[2] = cleaned[1]

\* the upstream call of r returned a successful answer: a JSON object
Succeeded(r) ==
    /\ Answered(r)
    /\ resp[r].status = 200
    /\ resp[r].json
    /\ resp[r].value.k = "dict"

\* C6 (as amended): when the upstream returns a successful answer, the
\* response is 200 and echoes the client's file name and content type, and as
\* prompt the resolved one: the client's prompt without its leading and
\* trailing whitespace, or the default instruction for an empty prompt.
C6_EchoResolved ==
    \A r \in Requests :
      Succeeded(r)
        => /\ ~KeyMissing /\ MimeAllowed(r) /\ file[r].body.len <= TenMiB
           /\ reply[r].status = 200
           /\ reply[r].data.filename = file[r].filename
           /\ reply[r].data.content_type = file[r].content_type
           /\ reply[r].data.prompt =
                IF prompt[r] = << >> THEN DefaultPrompt ELSE Strip(prompt[r])

\* C6 as stated: the echoed prompt is the prompt the client supplied
C6_EchoSupplied ==
    \A r \in Requests :
      Succeeded(r)
        => /\ reply[r].status = 200
           /\ reply[r].data.filename = file[r].filename
           /\ reply[r].data.content_type = file[r].content_type
           /\ reply[r].data.prompt = prompt[r]

\* a prompt with whitespace around it was echoed without it
C6_Witness ==
    \E r \in Requests :
      /\ Succeeded(r)
      /\ prompt[r] = << " ","h","i","\n" >>
      /\ file[r].filename = << "scans", "leaf.png" >>
      /\ reply[r].data.prompt = << "h","i" >>

\* C7: a request writes at most one file and makes at most one upstream
\* call, and one that returns the success envelope did each exactly once.
C7_OneWriteOneCall ==
    \A r \in Requests :
      /\ n_writes[r] <= 1
      /\ n_posts[r] <= 1
      /\ (pc[r] = "done" /\ reply[r].status = 200)
           => n_writes[r] = 1 /\ n_posts[r] = 1

\* a request that the upstream answered 429 ended after its one call
C7_Witness ==
    \E r \in Requests :
      /\ Answered(r)
      /\ resp[r].status = 429
      /\ reply[r].status = 429
      /\ n_writes[r] = 1
      /\ n_posts[r] = 1

\* C8: every file of the uploads directory was written by one request.
C8_UniqueStoredNames ==
    \A n \in DOMAIN writers : Cardinality(writers[n]) <= 1

\* C9: the bytes a request read back, encoded and sent upstream are the
\* bytes it uploaded.
C9_ReadsOwnBytes ==
    \A r \in Requests :
      /\ pc[r] \in { "send", "awaiting", "done" } /\ saved_bytes[r] # NoBytes
           => saved_bytes[r] = file[r].body
      /\ n_posts[r] > 0
           => payload[r].image_url
                = DataUri(file[r].content_type, file[r].body)

\* C10: a request that fails a validation check writes no file and calls no
\* upstream; one whose write or read-back fails answers 500 and calls no
\* upstream; an upstream call is made only after the three checks passed and
\* the file was written and read back.
C10_RejectedLeavesNoTrace ==
    \A r \in Requests :
      /\ (pc[r] # "idle"
            /\ (KeyMissing \/ ~MimeAllowed(r) \/ file[r].body.len > TenMiB))
           => /\ n_writes[r] = 0
              /\ n_posts[r] = 0
              /\ \A n \in DOMAIN writers : r \notin writers[n]
      /\ StorageDetail(reply[r].detail)
           => reply[r].status = 500 /\ n_posts[r] = 0
      /\ n_posts[r] > 0
           => /\ ~KeyMissing /\ MimeAllowed(r) /\ file[r].body.len <= TenMiB
              /\ n_writes[r] = 1
              /\ saved_path[r] \in DOMAIN uploads
              /\ saved_bytes[r] # NoBytes

\* a request whose read-back failed answered 500 without an upstream call
C10_Witness ==
    \E r \in Requests :
      /\ pc[r] = "done"
      /\ reply[r] = Fail(500, Msg("Failed to read saved file"))
      /\ n_writes[r] = 1
      /\ n_posts[r] = 0

====
